---------------------------- MODULE Spec2Model ----------------------------
(***************************************************************************)
(* Model of blendgit.py: the "Save Version" and "Load Version" operators   *)
(* of the Blender add-on, the staging work directory they use and the Git  *)
(* commands they spawn.  Strings of the program are TLA+ strings; the      *)
(* filesystem is a map from resolved paths to entries; the Git backend is  *)
(* the index, the commit list and the repository directory.                *)
(***************************************************************************)
EXTENDS Naturals, Sequences, FiniteSets, TLC

(***************************************************************************)
(* Bounds of the model.                                                    *)
(***************************************************************************)
\* operations (save, load, list, edits) one run may start
MaxOps == 4
\* assets one document may hold
MaxAssets == 4
\* depth of nested process_node calls the interpreter allows
RecursionLimit == 4
\* operations one run of the closure specification may start
ClosureOps == 1

(***************************************************************************)
(* Python string and os.path functions, as the program uses them.          *)
(***************************************************************************)
CharAt(s, i) == SubSeq(s, i, i)

\* s.startswith(p)
StartsWith(s, p) == Len(s) >= Len(p) /\ SubSeq(s, 1, Len(p)) = p

\* s.endswith(p)
EndsWith(s, p) == Len(s) >= Len(p) /\ SubSeq(s, Len(s) - Len(p) + 1, Len(s)) = p

\* s[n:]
SliceFrom(s, n) == IF Len(s) <= n THEN "" ELSE SubSeq(s, n + 1, Len(s))

\* s[:n]
SliceTo(s, n) == IF Len(s) <= n THEN s ELSE SubSeq(s, 1, n)

Whitespace == {" ", "\t", "\n"}

RECURSIVE LStrip(_)
LStrip(s) ==
    IF Len(s) > 0 /\ CharAt(s, 1) \in Whitespace THEN LStrip(SliceFrom(s, 1)) ELSE s

RECURSIVE RStrip(_)
RStrip(s) ==
    IF Len(s) > 0 /\ CharAt(s, Len(s)) \in Whitespace
    THEN RStrip(SliceTo(s, Len(s) - 1)) ELSE s

\* s.strip()
Strip(s) == RStrip(LStrip(s))

\* s.rfind("/") + 1
RFindSlash1(s) ==
    LET hits == {i \in 1..Len(s) : CharAt(s, i) = "/"}
    IN  IF hits = {} THEN 0 ELSE CHOOSE i \in hits : \A j \in hits : j <= i

RECURSIVE RStripSlash(_)
RStripSlash(s) ==
    IF Len(s) > 0 /\ CharAt(s, Len(s)) = "/"
    THEN RStripSlash(SliceTo(s, Len(s) - 1)) ELSE s

\* os.path.split(p): <<head, tail>>
PathSplit(p) ==
    LET i == RFindSlash1(p)
        head == SliceTo(p, i)
        tail == SliceFrom(p, i)
    IN  <<IF RStripSlash(head) = "" THEN head ELSE RStripSlash(head), tail>>

\* os.path.basename(p)
Basename(p) == SliceFrom(p, RFindSlash1(p))

\* os.path.join(a, b)
PathJoin(a, b) ==
    IF StartsWith(b, "/") THEN b
    ELSE IF a = "" \/ EndsWith(a, "/") THEN a \o b
    ELSE a \o "/" \o b

\* s.split("/")
RECURSIVE StrSplit(_)
StrSplit(s) ==
    LET hits == {i \in 1..Len(s) : CharAt(s, i) = "/"}
    IN  IF hits = {} THEN <<s>>
        ELSE LET i == CHOOSE k \in hits : \A j \in hits : k <= j
             IN  <<SliceTo(s, i - 1)>> \o StrSplit(SliceFrom(s, i))

\* "/".join(parts)
RECURSIVE StrJoin(_)
StrJoin(parts) ==
    IF Len(parts) = 0 THEN ""
    ELSE IF Len(parts) = 1 THEN parts[1]
    ELSE parts[1] \o "/" \o StrJoin(Tail(parts))

Front(seq) == SubSeq(seq, 1, Len(seq) - 1)

\* The path the operating system resolves a name to: empty and "." components
\* dropped, ".." stepping to the parent (the root is its own parent).
RECURSIVE ResolveParts(_, _, _)
ResolveParts(parts, acc, abs) ==
    IF Len(parts) = 0 THEN acc
    ELSE LET c == Head(parts)
             next == IF c = "" \/ c = "." THEN acc
                     ELSE IF c = ".."
                          THEN IF Len(acc) > 0 /\ acc[Len(acc)] # ".." THEN Front(acc)
                               ELSE IF abs THEN acc ELSE Append(acc, c)
                          ELSE Append(acc, c)
         IN  ResolveParts(Tail(parts), next, abs)

Resolve(p) ==
    LET abs == StartsWith(p, "/")
        parts == ResolveParts(StrSplit(p), <<>>, abs)
    IN  IF abs THEN "/" \o StrJoin(parts)
        ELSE IF Len(parts) = 0 THEN "." ELSE StrJoin(parts)


(***************************************************************************)
(* The document model (bpy.data) the operators read.                       *)
(***************************************************************************)
None == "<None>"

\* hide_git_dir and OS, the two module-level settings
hide_git_dir == TRUE
OS == "linux"

\* The assets a document may hold, by category.  packed_file is None for a
\* file kept outside the .blend file.
AssetPool ==
    << [category |-> "fonts",     packed_file |-> None,     filepath |-> "<builtin>",   type |-> "FONT"],
       [category |-> "images",    packed_file |-> "packed", filepath |-> "//a",         type |-> "IMAGE"],
       [category |-> "images",    packed_file |-> None,     filepath |-> "//a",         type |-> "IMAGE"],
       [category |-> "images",    packed_file |-> None,     filepath |-> "//s/b",       type |-> "MULTILAYER"],
       [category |-> "libraries", packed_file |-> None,     filepath |-> "//../x",      type |-> "LIBRARY"],
       [category |-> "libraries", packed_file |-> None,     filepath |-> "/x",          type |-> "LIBRARY"],
       [category |-> "libraries", packed_file |-> None,     filepath |-> "//s/../../x", type |-> "LIBRARY"],
       [category |-> "sounds",    packed_file |-> None,     filepath |-> "//a",         type |-> "SOUND"],
       [category |-> "sounds",    packed_file |-> None,     filepath |-> "//s/b",       type |-> "SOUND"],
       [category |-> "sounds",    packed_file |-> None,     filepath |-> "//..a",       type |-> "SOUND"] >>

AssetIds == 1..Len(AssetPool)

\* Node graphs: the node trees, and the node tree of each material and light
\* (0 stands for node_tree == None).
NoTree == 0

ScriptNode(mode, path) ==
    [type |-> "SCRIPT", mode |-> mode, filepath |-> path, node_tree |-> NoTree]
IESNode(mode, path) ==
    [type |-> "TEX_IES", mode |-> mode, filepath |-> path, node_tree |-> NoTree]
GroupNode(tree) ==
    [type |-> "GROUP", mode |-> "", filepath |-> "", node_tree |-> tree]
OtherNode ==
    [type |-> "BSDF_PRINCIPLED", mode |-> "", filepath |-> "", node_tree |-> NoTree]

Graphs ==
    << \* 1: no materials, no lights
       [materials |-> <<>>, lights |-> <<>>, trees |-> <<>>],
       \* 2: a material with an external script, and one without nodes
       [materials |-> <<1, NoTree>>, lights |-> <<>>,
        trees |-> << <<OtherNode, ScriptNode("EXTERNAL", "//a"), ScriptNode("INTERNAL", "//s/b")>> >>],
       \* 3: a light with an external IES file
       [materials |-> <<>>, lights |-> <<1>>,
        trees |-> << <<IESNode("EXTERNAL", "//s/b")>> >>],
       \* 4: a material whose groups nest, one group used twice
       [materials |-> <<1>>, lights |-> <<>>,
        trees |-> << <<GroupNode(2), GroupNode(2), ScriptNode("EXTERNAL", "//a")>>,
                     <<IESNode("EXTERNAL", "//s/b"), GroupNode(NoTree)>> >>],
       \* 5: a material whose group contains itself through a second group
       [materials |-> <<1>>, lights |-> <<>>,
        trees |-> << <<GroupNode(2)>>,
                     <<ScriptNode("EXTERNAL", "//a"), GroupNode(1)>> >>],
       \* 6: a material whose script lies above the document
       [materials |-> <<1>>, lights |-> <<>>,
        trees |-> << <<ScriptNode("EXTERNAL", "//../x")>> >>] >>

GraphIds == 1..Len(Graphs)

\* A file's bytes.  The .blend file holds the whole document.
Blob(n) == [body |-> n, assets |-> {}, graph |-> 1]

RECURSIVE SortedSeq(_)
SortedSeq(S) ==
    IF S = {} THEN <<>>
    ELSE LET m == CHOOSE x \in S : \A y \in S : x <= y
         IN  <<m>> \o SortedSeq(S \ {m})

SelectSeqBy(seq, cat) == SelectSeq(seq, LAMBDA it : it.category = cat)

\* getattr(bpy.data, category)
DataCategory(d, cat) ==
    LET ids == SortedSeq(d.assets)
    IN  SelectSeqBy([k \in 1..Len(ids) |-> AssetPool[ids[k]]], cat)

Materials(d) == Graphs[d.graph].materials
Lights(d) == Graphs[d.graph].lights
NodeTree(d, t) == Graphs[d.graph].trees[t]

\* A document was saved at least once
doc_saved(fp) == Len(fp) # 0

get_repo_name(fp) ==
    IF hide_git_dir
    THEN IF OS = "linux" \/ OS = "mac"
         THEN LET path_split == StrSplit(fp)
              IN  StrJoin(Front(path_split)) \o "/." \o path_split[Len(path_split)] \o ".git"
         ELSE fp \o ".git"
    ELSE fp \o ".git"

get_workdir_name(fp) == fp \o ".work"

(***************************************************************************)
(* The filesystem: resolved path -> entry.                                 *)
(***************************************************************************)
Dir == [kind |-> "dir"]
Symlink(target) == [kind |-> "symlink", target |-> target]
File(data) == [kind |-> "file", data |-> data]

Exists(f, p) == Resolve(p) \in DOMAIN f
IsDir(f, p) == Exists(f, p) /\ f[Resolve(p)].kind = "dir"
IsFile(f, p) == Exists(f, p) /\ f[Resolve(p)].kind = "file"

Put(f, p, e) == (Resolve(p) :> e) @@ f

\* os.path.isdir follows a symbolic link
RECURSIVE isdir(_, _)
isdir(f, p) ==
    /\ Exists(f, p)
    /\ \/ f[Resolve(p)].kind = "dir"
       \/ /\ f[Resolve(p)].kind = "symlink"
          /\ isdir(f, PathJoin(PathSplit(Resolve(p))[1], f[Resolve(p)].target))

\* os.makedirs(p, exist_ok = True)
RECURSIVE MakeDirsUpTo(_, _, _)
MakeDirsUpTo(f, parts, k) ==
    IF k > Len(parts) THEN f
    ELSE LET q == StrJoin(SubSeq(parts, 1, k))
         IN  MakeDirsUpTo(IF q = "" \/ Exists(f, q) THEN f ELSE Put(f, q, Dir), parts, k + 1)

makedirs(f, p) == MakeDirsUpTo(f, StrSplit(p), 1)

\* shutil.rmtree(p)
rmtree(f, p) ==
    LET root == Resolve(p)
        keep == {q \in DOMAIN f : q # root /\ ~StartsWith(q, root \o "/")}
    IN  [q \in keep |-> f[q]]

\* os.link(src, dst): the error it raises, or "" when it links
LinkError(f, src, dst) ==
    IF ~Exists(f, src) THEN "FileNotFoundError"
    ELSE IF ~IsFile(f, src) THEN "PermissionError"
    ELSE IF Exists(f, dst) THEN "FileExistsError"
    ELSE IF ~IsDir(f, PathSplit(Resolve(dst))[1]) THEN "FileNotFoundError"
    ELSE ""

Link(f, src, dst) == Put(f, dst, f[Resolve(src)])


(***************************************************************************)
(* State.                                                                  *)
(***************************************************************************)
VARIABLES
    filepath,           \* bpy.data.filepath ("" for a document never saved)
    environ,            \* os.environ of the host process
    doc,                \* the document in memory: body, assets, node graph
    fs,                 \* the filesystem
    index,              \* the repository's index: tracked path -> bytes
    commits,            \* the repository's history, oldest first
    hist,               \* per commit: what that save captured, as on disk then
    last_commits_list,  \* the module's global of the same name
    pc,                 \* position inside SaveVersion.execute ("idle" outside)
    sv,                 \* the locals of SaveVersion.execute
    events,             \* what the running or last operation did, in order
    out,                \* the last operation: its name, result and error
    ops                 \* operations the run may still start

vars == <<filepath, environ, doc, fs, index, commits, hist, last_commits_list,
          pc, sv, events, out, ops>>

Comments == {"", "  ", " v 1"}
Bodies == {1, 2}

NoEnv == [k \in {} |-> ""]
EmptyIndex == [k \in {} |-> Blob(1)]

DocPath == "/p/d"
AssetFiles == {"/p/a"}

\* The disk before the first operation: the document directory /p with the
\* saved document (when it has a path), two asset files, and a file above it.
InitFs(fp, d) ==
    LET base == ("/p" :> Dir) @@ ("/p/s" :> Dir) @@ ("/p/a" :> File(Blob(1)))
                @@ ("/p/s/b" :> File(Blob(1))) @@ ("/x" :> File(Blob(1)))
    IN  IF doc_saved(fp) THEN (fp :> File(d)) @@ base ELSE base

NoLocals ==
    [comment |-> "", seen |-> {}, ai |-> 1, ri |-> 1, stack |-> <<>>,
     dst |-> "", ret |-> ""]

InitWith(docs, envs, paths, n) ==
    /\ filepath \in paths
    /\ environ \in envs
    /\ doc \in docs
    /\ fs = InitFs(filepath, doc)
    /\ index = EmptyIndex
    /\ commits = <<>>
    /\ hist = <<>>
    /\ last_commits_list = <<>>
    /\ pc = "idle"
    /\ sv = NoLocals
    /\ events = <<>>
    /\ out = [op |-> "", arg |-> "", result |-> "", error |-> ""]
    /\ ops = n

\* Documents of the life-cycle specification: up to two plain assets.
SmallDocs ==
    {[body |-> 1, assets |-> A, graph |-> 1] : A \in SUBSET {3, 9}}

Init ==
    InitWith(SmallDocs, {NoEnv, ("GIT_DIR" :> "/other.git")}, {"", DocPath}, MaxOps)

\* Mutant: the save mode leaves GIT_DIR in the environment of the command
do_gitKeepEnv(args, saving) ==
    [ev |-> "git", args |-> args, saving |-> saving,
     cwd |-> IF saving THEN get_workdir_name(filepath) ELSE PathSplit(filepath)[1],
     env |-> IF saving
             THEN environ
             ELSE ("GIT_DIR" :> get_repo_name(filepath)) @@ environ]

(***************************************************************************)
(* do_git and the Git commands it spawns.                                  *)
(***************************************************************************)
\* do_git(args, saving): the subprocess it starts
do_git(args, saving) ==
    [ev |-> "git", args |-> args, saving |-> saving,
     cwd |-> IF saving THEN get_workdir_name(filepath) ELSE PathSplit(filepath)[1],
     env |-> IF saving
             THEN [k \in DOMAIN environ \ {"GIT_DIR"} |-> environ[k]]
             ELSE ("GIT_DIR" :> get_repo_name(filepath)) @@ environ]

\* The repository directory Git uses for a call: $GIT_DIR, else what .git in
\* the working directory points to ("" when there is neither).
GitDirOf(f, call) ==
    IF "GIT_DIR" \in DOMAIN call.env THEN Resolve(PathJoin(call.cwd, call.env["GIT_DIR"]))
    ELSE LET dotgit == PathJoin(call.cwd, ".git")
         IN  IF ~Exists(f, dotgit) THEN ""
             ELSE IF f[Resolve(dotgit)].kind = "symlink"
                  THEN Resolve(PathJoin(call.cwd, f[Resolve(dotgit)].target))
                  ELSE Resolve(dotgit)

\* The working tree of a call
WorkTreeOf(call) == Resolve(call.cwd)

HasRepo(f, call) == GitDirOf(f, call) # "" /\ IsDir(f, GitDirOf(f, call))

\* git init can work: it has a place to make the repository
GitInitCan(f, call) == GitDirOf(f, call) # "" /\ ~IsFile(f, GitDirOf(f, call))
GitInit(f, call) ==
    IF Exists(f, GitDirOf(f, call)) THEN f ELSE Put(f, GitDirOf(f, call), Dir)

\* git add -- path: the path must be a file inside the working tree
AddTarget(call) == Resolve(PathJoin(call.cwd, call.args[3]))
GitAddCan(f, call) ==
    /\ HasRepo(f, call)
    /\ StartsWith(AddTarget(call), WorkTreeOf(call) \o "/")
    /\ IsFile(f, AddTarget(call))
    /\ ~StartsWith(AddTarget(call), WorkTreeOf(call) \o "/.git")
TrackedName(call) == SliceFrom(AddTarget(call), Len(WorkTreeOf(call)) + 1)
GitAdd(ix, f, call) == (TrackedName(call) :> f[AddTarget(call)].data) @@ ix

\* git commit: refuses when the index equals the last commit's tree
HeadTree(cs) == IF Len(cs) = 0 THEN EmptyIndex ELSE cs[Len(cs)].tree
GitCommitCan(ix, cs, f, call) == HasRepo(f, call) /\ ix # HeadTree(cs)
Digits == "123456789"
CommitId(n) == "c" \o CharAt(Digits, n)
\* Mutant: the commit replaces the last revision instead of following it
GitCommitAmend(ix, cs, call) ==
    Append(IF Len(cs) = 0 THEN cs ELSE Front(cs),
           [id |-> CommitId(Len(cs) + 1),
            time |-> CharAt(Digits, Len(cs) + 1),
            message |-> SliceFrom(call.args[2], 2),
            tree |-> ix])
GitCommit(ix, cs, call) ==
    Append(cs, [id |-> CommitId(Len(cs) + 1),
                time |-> CharAt(Digits, Len(cs) + 1),
                message |-> SliceFrom(call.args[2], 2),
                tree |-> ix])

\* git log --format="%H %ct %s": the bytes it prints, newest commit first
GitLogCan(cs, f, call) == HasRepo(f, call) /\ Len(cs) > 0
RECURSIVE GitLog(_)
GitLog(cs) ==
    IF Len(cs) = 0 THEN ""
    ELSE LET c == cs[Len(cs)]
         IN  c.id \o " " \o c.time \o " " \o c.message \o "\n" \o GitLog(Front(cs))

\* git checkout -f commit . : every file of the commit is written to the
\* working tree and to the index; other files are left alone
CommitOf(cs, id) == CHOOSE k \in 1..Len(cs) : cs[k].id = id
GitCheckoutCan(cs, f, call) ==
    HasRepo(f, call) /\ \E k \in 1..Len(cs) : cs[k].id = call.args[3]
RECURSIVE WriteTree(_, _, _, _)
WriteTree(f, dir, tree, paths) ==
    IF paths = {} THEN f
    ELSE LET q == CHOOSE x \in paths : TRUE
             dst == PathJoin(dir, q)
         IN  WriteTree(Put(makedirs(f, PathSplit(dst)[1]), dst, File(tree[q])),
                       dir, tree, paths \ {q})
GitCheckoutFs(cs, f, call) ==
    LET tree == cs[CommitOf(cs, call.args[3])].tree
    IN  WriteTree(f, WorkTreeOf(call), tree, DOMAIN tree)
GitCheckoutIndex(ix, cs, call) == cs[CommitOf(cs, call.args[3])].tree @@ ix


(***************************************************************************)
(* list_commits and the Load Version operator.                             *)
(***************************************************************************)
\* s.split(sep, maxsplit) for a one-character separator
RECURSIVE SplitOn(_, _, _)
SplitOn(s, sep, maxsplit) ==
    LET hits == {i \in 1..Len(s) : CharAt(s, i) = sep}
    IN  IF hits = {} \/ maxsplit = 0 THEN <<s>>
        ELSE LET i == CHOOSE k \in hits : \A j \in hits : k <= j
             IN  <<SliceTo(s, i - 1)>> \o SplitOn(SliceFrom(s, i), sep, maxsplit - 1)

\* The rendering of a commit time; the wall clock it depends on is left out.
format_compact_datetime(timestamp) == "@" \o timestamp

\* The menu items list_commits builds from the output of git log
ParseLog(output) ==
    LET lines == SelectSeq(SplitOn(output, "\n", Len(output)), LAMBDA line : Len(line) # 0)
    IN  [k \in 1..Len(lines) |->
            LET entry == SplitOn(lines[k], " ", 2)
            IN  <<entry[1], format_compact_datetime(entry[2]) \o ": " \o entry[3], "">>]

\* Mutant: no entry at all when there is no repository
NoRepoListEmpty == <<>>

\* The list list_commits returns when the repository directory is missing
NoRepoList == << <<"", "No repo found", "">> >>

\* What the host sees of an operation: its name, its property (the comment
\* or the commit), what it returned, and the exception that left it.
StartOp(name, arg) == [op |-> name, arg |-> arg, result |-> "", error |-> ""]
Finish(name, arg, result) == [op |-> name, arg |-> arg, result |-> result, error |-> ""]
Raise(name, arg, err) == [op |-> name, arg |-> arg, result |-> "ERROR", error |-> err]

\* list_commits(self, context)
ListCommits ==
    /\ pc = "idle"
    /\ LET repo_name == get_repo_name(filepath)
           call == do_git(<<"log", "--format=%H %ct %s">>, FALSE)
       IN  IF isdir(fs, repo_name)
           THEN /\ events' = <<call>>
                /\ \E ok \in BOOLEAN :
                     IF ok /\ GitLogCan(commits, fs, call)
                     THEN /\ last_commits_list' = ParseLog(GitLog(commits))
                          /\ out' = Finish("list", "", "OK")
                     ELSE /\ last_commits_list' = last_commits_list
                          /\ out' = Raise("list", "", "CalledProcessError")
           ELSE /\ events' = <<>>
                /\ last_commits_list' = NoRepoList
                /\ out' = Finish("list", "", "OK")
    /\ UNCHANGED <<filepath, environ, doc, fs, index, commits, hist, pc, sv, ops>>

Report(msg) == [ev |-> "report", level |-> "ERROR", text |-> msg]

\* LoadVersion.invoke
LoadInvoke ==
    /\ pc = "idle"
    /\ IF doc_saved(filepath)
       THEN /\ events' = <<[ev |-> "dialog"]>>
            /\ out' = Finish("load.invoke", "", "RUNNING_MODAL")
       ELSE /\ events' = <<Report("Need to save the new document first")>>
            /\ out' = Finish("load.invoke", "", "CANCELLED")
    /\ UNCHANGED <<filepath, environ, doc, fs, index, commits, hist,
                   last_commits_list, pc, sv, ops>>

\* Mutant: the file is reopened whether the checkout worked or not
LoadExecuteReloadAnyway ==
    /\ pc = "idle"
    /\ ops > 0
    /\ ops' = ops - 1
    /\ \E k \in 1..Len(last_commits_list) :
         LET commit == last_commits_list[k][1]
             call == do_git(<<"checkout", "-f", commit, ".">>, FALSE)
         IN  IF Len(commit) # 0
             THEN \E ok \in BOOLEAN :
                    IF ok /\ GitCheckoutCan(commits, fs, call)
                    THEN /\ fs' = GitCheckoutFs(commits, fs, call)
                         /\ index' = GitCheckoutIndex(index, commits, call)
                         \* bpy.ops.wm.open_mainfile
                         /\ doc' = fs'[Resolve(filepath)].data
                         /\ events' = <<call, [ev |-> "open_mainfile", filepath |-> filepath]>>
                         /\ out' = Finish("load", commit, "FINISHED")
                    ELSE /\ events' = <<call, [ev |-> "open_mainfile", filepath |-> filepath]>>
                         /\ out' = Raise("load", commit, "CalledProcessError")
                         /\ UNCHANGED <<fs, index, doc>>
             ELSE /\ events' = <<>>
                  /\ out' = Finish("load", commit, "CANCELLED")
                  /\ UNCHANGED <<fs, index, doc>>
    /\ UNCHANGED <<filepath, environ, commits, hist, last_commits_list, pc, sv>>

\* LoadVersion.execute, self.commit being one of the listed items
LoadExecute ==
    /\ pc = "idle"
    /\ ops > 0
    /\ ops' = ops - 1
    /\ \E k \in 1..Len(last_commits_list) :
         LET commit == last_commits_list[k][1]
             call == do_git(<<"checkout", "-f", commit, ".">>, FALSE)
         IN  IF Len(commit) # 0
             THEN \E ok \in BOOLEAN :
                    IF ok /\ GitCheckoutCan(commits, fs, call)
                    THEN /\ fs' = GitCheckoutFs(commits, fs, call)
                         /\ index' = GitCheckoutIndex(index, commits, call)
                         \* bpy.ops.wm.open_mainfile
                         /\ doc' = fs'[Resolve(filepath)].data
                         /\ events' = <<call, [ev |-> "open_mainfile", filepath |-> filepath]>>
                         /\ out' = Finish("load", commit, "FINISHED")
                    ELSE /\ events' = <<call>>
                         /\ out' = Raise("load", commit, "CalledProcessError")
                         /\ UNCHANGED <<fs, index, doc>>
             ELSE /\ events' = <<>>
                  /\ out' = Finish("load", commit, "CANCELLED")
                  /\ UNCHANGED <<fs, index, doc>>
    /\ UNCHANGED <<filepath, environ, commits, hist, last_commits_list, pc, sv>>

(***************************************************************************)
(* The Save Version operator.                                              *)
(***************************************************************************)
\* SaveVersion.invoke
SaveInvoke ==
    /\ pc = "idle"
    /\ IF doc_saved(filepath)
       THEN /\ events' = <<[ev |-> "dialog"]>>
            /\ out' = Finish("save.invoke", "", "RUNNING_MODAL")
       ELSE /\ events' = <<Report("Need to save the new document first")>>
            /\ out' = Finish("save.invoke", "", "CANCELLED")
    /\ UNCHANGED <<filepath, environ, doc, fs, index, commits, hist,
                   last_commits_list, pc, sv, ops>>

\* An exception leaves execute: nothing after the raising statement runs.
FailWith(comment, err) ==
    /\ pc' = "idle"
    /\ out' = Raise("save", comment, err)

Fail(err) == FailWith(sv.comment, err)

\* Mutant: the comment is tested as typed
CommentOkUnstripped(comment) == Len(comment) # 0

\* The condition under which execute saves at all
CommentOk(comment) == Len(Strip(comment)) # 0

\* os.mkdir in setup_workdir: EEXIST is swallowed, any other error raised
MkdirError(f, p) ==
    IF Exists(f, p) THEN "EEXIST"
    ELSE IF PathSplit(p)[1] # "" /\ ~isdir(f, PathSplit(p)[1]) THEN "ENOENT"
    ELSE ""

\* os.symlink in setup_workdir
SymlinkError(f, p) == IF Exists(f, p) THEN "FileExistsError" ELSE ""

\* SaveVersion.execute, from its first statement through setup_workdir()
SaveExecute ==
    /\ pc = "idle"
    /\ ops > 0
    /\ ops' = ops - 1
    /\ \E comment \in Comments :
         IF CommentOk(comment)
         THEN LET repo_name == get_repo_name(filepath)
                  work_dir == get_workdir_name(filepath)
                  dotgit == PathJoin(work_dir, ".git")
                  mkerr == MkdirError(fs, work_dir)
                  fs1 == IF mkerr = "" THEN Put(fs, work_dir, Dir) ELSE fs
              IN  /\ sv' = [NoLocals EXCEPT !.comment = comment]
                  /\ IF mkerr \notin {"", "EEXIST"}
                     THEN /\ fs' = fs
                          /\ events' = <<[ev |-> "mkdir", path |-> work_dir]>>
                          /\ FailWith(comment, "FileNotFoundError")
                     ELSE /\ events' = <<[ev |-> "mkdir", path |-> work_dir],
                                         [ev |-> "symlink", path |-> dotgit]>>
                          /\ IF SymlinkError(fs1, dotgit) # ""
                             THEN /\ fs' = fs1
                                  /\ FailWith(comment, SymlinkError(fs1, dotgit))
                             ELSE /\ fs' = Put(fs1, dotgit,
                                               Symlink("../" \o Basename(repo_name)))
                                  /\ out' = StartOp("save", comment)
                                  /\ pc' = IF ~isdir(fs', repo_name)
                                           THEN "init" ELSE "save_mainfile"
         ELSE /\ events' = <<Report("Comment cannot be empty")>>
              /\ out' = Finish("save", comment, "CANCELLED")
              /\ UNCHANGED <<fs, pc, sv>>
    /\ UNCHANGED <<filepath, environ, doc, index, commits, hist, last_commits_list>>

\* do_git(("init",), saving = True)
GitInitStep ==
    /\ pc = "init"
    /\ LET call == do_git(<<"init">>, TRUE)
       IN  /\ events' = Append(events, call)
           /\ \E ok \in BOOLEAN :
                IF ok /\ GitInitCan(fs, call)
                THEN /\ fs' = GitInit(fs, call)
                     /\ pc' = "config"
                     /\ out' = out
                ELSE /\ fs' = fs
                     /\ Fail("CalledProcessError")
    /\ UNCHANGED <<filepath, environ, doc, index, commits, hist, last_commits_list, sv, ops>>

\* do_git(("config", "--unset", "core.worktree"), saving = True)
GitConfigStep ==
    /\ pc = "config"
    /\ LET call == do_git(<<"config", "--unset", "core.worktree">>, TRUE)
       IN  /\ events' = Append(events, call)
           /\ \E ok \in BOOLEAN :
                IF ok /\ HasRepo(fs, call)
                THEN /\ pc' = "save_mainfile"
                     /\ out' = out
                ELSE Fail("CalledProcessError")
    /\ UNCHANGED <<filepath, environ, doc, fs, index, commits, hist, last_commits_list,
                   sv, ops>>

\* bpy.ops.wm.save_as_mainfile: the document in memory replaces the file
save_as_mainfile(f, fp, d) == Put(f, fp, File(d))

\* Mutant: the .blend file is hard-linked before it is written
StagePrimaryLinkFirst(f, fp, d, dst) == save_as_mainfile(Link(f, fp, dst), fp, d)

\* The .blend file is written, then hard-linked into the work directory
StagePrimary(f, fp, d, dst) == Link(save_as_mainfile(f, fp, d), fp, dst)

\* bpy.ops.wm.save_as_mainfile and the hard link of the .blend file
SaveMainfile ==
    /\ pc = "save_mainfile"
    /\ LET work_dir == get_workdir_name(filepath)
           dst == PathJoin(work_dir, Basename(filepath))
           fs1 == save_as_mainfile(fs, filepath, doc)
           saved == [ev |-> "save_as_mainfile", filepath |-> filepath]
           link == [ev |-> "link", item |-> None, src |-> filepath, dst |-> dst]
       IN  IF ~doc_saved(filepath)
           THEN /\ events' = Append(events, saved)
                /\ fs' = fs
                /\ Fail("RuntimeError")
           ELSE /\ events' = events \o <<saved, link>>
                /\ IF LinkError(fs1, filepath, dst) # ""
                   THEN /\ fs' = fs1
                        /\ Fail(LinkError(fs1, filepath, dst))
                   ELSE /\ fs' = StagePrimary(fs, filepath, doc, dst)
                        /\ pc' = "add_primary"
                        /\ out' = out
    /\ UNCHANGED <<filepath, environ, doc, index, commits, hist, last_commits_list, sv, ops>>

\* do_git(("add", "--", basename), saving = True)
AddPrimary ==
    /\ pc = "add_primary"
    /\ LET call == do_git(<<"add", "--", Basename(filepath)>>, TRUE)
       IN  /\ events' = Append(events, call)
           /\ \E ok \in BOOLEAN :
                IF ok /\ GitAddCan(fs, call)
                THEN /\ index' = GitAdd(index, fs, call)
                     /\ pc' = "assets"
                     /\ out' = out
                ELSE /\ index' = index
                     /\ Fail("CalledProcessError")
    /\ UNCHANGED <<filepath, environ, doc, fs, commits, hist, last_commits_list, sv, ops>>


\* The table execute loops over: category, match, mismatch
Categories ==
    << [name |-> "fonts",     match |-> {}, mismatch |-> {<<"filepath", "<builtin>">>}],
       [name |-> "images",    match |-> {<<"type", "IMAGE">>}, mismatch |-> {}],
       [name |-> "libraries", match |-> {}, mismatch |-> {}],
       [name |-> "sounds",    match |-> {}, mismatch |-> {}] >>

\* The items in the order the two nested loops visit them
RECURSIVE WalkFrom(_, _)
WalkFrom(d, c) ==
    IF c > Len(Categories) THEN <<>>
    ELSE LET items == DataCategory(d, Categories[c].name)
         IN  [k \in 1..Len(items) |-> [item |-> items[k], cat |-> Categories[c]]]
             \o WalkFrom(d, c + 1)

AssetWalk(d) == WalkFrom(d, 1)

\* The condition of the loop body: the item is to be saved with the document
Wanted(item, cat) ==
    /\ item.packed_file = None
    /\ StartsWith(item.filepath, "//")
    /\ ~StartsWith(item.filepath, "//..")
    /\ ~\E kv \in cat.mismatch : item[kv[1]] = kv[2]
    /\ \A kv \in cat.match : item[kv[1]] = kv[2]

\* Mutant: process_item forgets what it has seen
UnseenAlways(item, seen) == TRUE

\* process_item skips a path it has seen
Unseen(item, seen) == item.filepath \notin seen

\* Mutant: the item is hard-linked and the loop goes on, with no git add
ProcessItemLinkOnly(item, sv1, ret) ==
    LET parent_dir == PathSplit(filepath)[1]
        work_dir == get_workdir_name(filepath)
        path == SliceFrom(item.filepath, 2)
        subparent_dir == PathSplit(path)[1]
        fs1 == IF Len(subparent_dir) # 0
               THEN makedirs(fs, PathJoin(work_dir, subparent_dir)) ELSE fs
        dst_path == PathJoin(work_dir, path)
        src_path == PathJoin(parent_dir, path)
        err == LinkError(fs1, src_path, dst_path)
    IN  IF Unseen(item, sv1.seen)
        THEN /\ events' = Append(events, [ev |-> "link", item |-> item.filepath,
                                          src |-> src_path, dst |-> dst_path])
             /\ sv' = [sv1 EXCEPT !.seen = @ \cup {item.filepath},
                                  !.dst = dst_path, !.ret = ret]
             /\ IF err \notin {"", "FileExistsError"}
                THEN /\ fs' = fs1
                     /\ Fail(err)
                ELSE /\ fs' = IF err = "" THEN Link(fs1, src_path, dst_path) ELSE fs1
                     /\ pc' = ret
                     /\ out' = out
        ELSE /\ sv' = sv1
             /\ pc' = ret
             /\ UNCHANGED <<fs, events, out>>

\* process_item(item) up to its do_git call: remember the path, make the
\* directories, hard-link the file.  sv1 is the caller's state to return to.
ProcessItem(item, sv1, ret) ==
    LET parent_dir == PathSplit(filepath)[1]
        work_dir == get_workdir_name(filepath)
        path == SliceFrom(item.filepath, 2)
        subparent_dir == PathSplit(path)[1]
        fs1 == IF Len(subparent_dir) # 0
               THEN makedirs(fs, PathJoin(work_dir, subparent_dir)) ELSE fs
        dst_path == PathJoin(work_dir, path)
        src_path == PathJoin(parent_dir, path)
        err == LinkError(fs1, src_path, dst_path)
    IN  IF Unseen(item, sv1.seen)
        THEN /\ events' = Append(events, [ev |-> "link", item |-> item.filepath,
                                          src |-> src_path, dst |-> dst_path])
             /\ sv' = [sv1 EXCEPT !.seen = @ \cup {item.filepath},
                                  !.dst = dst_path, !.ret = ret]
             /\ IF err \notin {"", "FileExistsError"}
                THEN /\ fs' = fs1
                     /\ Fail(err)
                ELSE /\ fs' = IF err = "" THEN Link(fs1, src_path, dst_path) ELSE fs1
                     /\ pc' = "add_item"
                     /\ out' = out
        ELSE /\ sv' = sv1
             /\ pc' = ret
             /\ UNCHANGED <<fs, events, out>>

\* One round of the loops over fonts, images, libraries and sounds
AssetStep ==
    /\ pc = "assets"
    /\ LET walk == AssetWalk(doc)
           sv1 == [sv EXCEPT !.ai = @ + 1]
       IN  IF sv.ai > Len(walk)
           THEN /\ pc' = "nodes"
                /\ UNCHANGED <<fs, events, out, sv>>
           ELSE IF Wanted(walk[sv.ai].item, walk[sv.ai].cat)
                THEN ProcessItem(walk[sv.ai].item, sv1, "assets")
                ELSE /\ sv' = sv1
                     /\ UNCHANGED <<fs, events, out, pc>>
    /\ UNCHANGED <<filepath, environ, doc, index, commits, hist, last_commits_list, ops>>

\* do_git(("add", "--", dst_path), saving = True) of process_item
AddItem ==
    /\ pc = "add_item"
    /\ LET call == do_git(<<"add", "--", sv.dst>>, TRUE)
       IN  /\ events' = Append(events, call)
           /\ \E ok \in BOOLEAN :
                IF ok /\ GitAddCan(fs, call)
                THEN /\ index' = GitAdd(index, fs, call)
                     /\ pc' = sv.ret
                     /\ out' = out
                ELSE /\ index' = index
                     /\ Fail("CalledProcessError")
    /\ UNCHANGED <<filepath, environ, doc, fs, commits, hist, last_commits_list, sv, ops>>

\* The node owners execute walks: materials and lights, then lights again
Roots(d) == Materials(d) \o Lights(d) \o Lights(d)

\* A leaf process_node hands to process_item
ExternalLeaf(subnode) ==
    subnode.type \in {"SCRIPT", "TEX_IES"} /\ subnode.mode = "EXTERNAL"

\* A call of process_node may nest this deep
CanRecurse(stack) == Len(stack) < RecursionLimit

\* process_node(node): the frame it adds when the node has a tree
Enter(stack, tree) ==
    IF tree # NoTree THEN Append(stack, [tree |-> tree, i |-> 1]) ELSE stack

\* One step of the walk of the node graphs: the next owner, or the next
\* subnode of the innermost process_node call.
NodeStep ==
    /\ pc = "nodes"
    /\ IF sv.stack = <<>>
       THEN IF sv.ri > Len(Roots(doc))
            THEN /\ pc' = "commit"
                 /\ UNCHANGED <<fs, events, out, sv>>
            ELSE /\ sv' = [sv EXCEPT !.ri = @ + 1,
                                     !.stack = Enter(sv.stack, Roots(doc)[sv.ri])]
                 /\ UNCHANGED <<fs, events, out, pc>>
       ELSE LET top == sv.stack[Len(sv.stack)]
                nodes == NodeTree(doc, top.tree)
                popped == [sv EXCEPT !.stack = Front(sv.stack)]
                stepped == [sv EXCEPT !.stack[Len(sv.stack)].i = @ + 1]
            IN  IF top.i > Len(nodes)
                THEN /\ sv' = popped
                     /\ UNCHANGED <<fs, events, out, pc>>
                ELSE LET subnode == nodes[top.i]
                     IN  IF subnode.type = "GROUP"
                         THEN IF CanRecurse(sv.stack)
                              THEN /\ sv' = [stepped EXCEPT
                                               !.stack = Enter(stepped.stack, subnode.node_tree)]
                                   /\ UNCHANGED <<fs, events, out, pc>>
                              ELSE /\ sv' = stepped
                                   /\ Fail("RecursionError")
                                   /\ UNCHANGED <<fs, events>>
                         ELSE IF ExternalLeaf(subnode)
                              THEN ProcessItem(subnode, stepped, "nodes")
                              ELSE /\ sv' = stepped
                                   /\ UNCHANGED <<fs, events, out, pc>>
    /\ UNCHANGED <<filepath, environ, doc, index, commits, hist, last_commits_list, ops>>

\* The paths the git add calls of this save named, as tracked
AddedNames(evs) ==
    {TrackedName(evs[k]) : k \in {j \in 1..Len(evs) : evs[j].ev = "git" /\ evs[j].args[1] = "add"}}

\* What the files a save captured hold on disk
Captured(f, evs) ==
    [q \in AddedNames(evs) |-> f[Resolve(PathJoin(PathSplit(filepath)[1], q))].data]

\* do_git(("commit", "-m" + self.comment), saving = True)
CommitStep ==
    /\ pc = "commit"
    /\ LET call == do_git(<<"commit", "-m" \o sv.comment>>, TRUE)
       IN  /\ events' = Append(events, call)
           /\ \E ok \in BOOLEAN :
                IF ok /\ GitCommitCan(index, commits, fs, call)
                THEN /\ commits' = GitCommit(index, commits, call)
                     /\ hist' = Append(hist, Captured(fs, events))
                     /\ pc' = "cleanup"
                     /\ out' = out
                ELSE /\ UNCHANGED <<commits, hist>>
                     /\ Fail("CalledProcessError")
    /\ UNCHANGED <<filepath, environ, doc, fs, index, last_commits_list, sv, ops>>

\* cleanup_workdir() and the end of execute
cleanup_workdir(f) == rmtree(f, get_workdir_name(filepath))

Cleanup ==
    /\ pc = "cleanup"
    /\ fs' = cleanup_workdir(fs)
    /\ events' = Append(events, [ev |-> "rmtree", path |-> get_workdir_name(filepath)])
    /\ pc' = "idle"
    /\ out' = Finish("save", sv.comment, "FINISHED")
    /\ UNCHANGED <<filepath, environ, doc, index, commits, hist, last_commits_list, sv, ops>>

(***************************************************************************)
(* The user, between operations: edits of the document in memory and of    *)
(* the asset files on disk.                                                *)
(***************************************************************************)
\* The assets the user links and unlinks between operations
EditableAssets == {3}

Edits(d) ==
    {[d EXCEPT !.body = b] : b \in Bodies \ {d.body}}
    \cup {[d EXCEPT !.assets = @ \ {a}] : a \in d.assets \cap EditableAssets}
    \cup {[d EXCEPT !.assets = @ \cup {a}] :
            a \in IF Cardinality(d.assets) < MaxAssets
                  THEN EditableAssets \ d.assets ELSE {}}

EditDoc ==
    /\ pc = "idle"
    /\ ops > 0
    /\ ops' = ops - 1
    /\ doc' \in Edits(doc)
    /\ events' = <<>>
    /\ out' = Finish("edit", "", "")
    /\ UNCHANGED <<filepath, environ, fs, index, commits, hist, last_commits_list,
                   pc, sv>>

EditFile ==
    /\ pc = "idle"
    /\ ops > 0
    /\ ops' = ops - 1
    /\ \E p \in AssetFiles, b \in Bodies :
         /\ IsFile(fs, p)
         /\ fs[p].data # Blob(b)
         /\ fs' = Put(fs, p, File(Blob(b)))
    /\ events' = <<>>
    /\ out' = Finish("edit", "", "")
    /\ UNCHANGED <<filepath, environ, doc, index, commits, hist, last_commits_list,
                   pc, sv>>

Next ==
    \/ ListCommits
    \/ LoadInvoke
    \/ LoadExecute
    \/ SaveInvoke
    \/ SaveExecute
    \/ GitInitStep
    \/ GitConfigStep
    \/ SaveMainfile
    \/ AddPrimary
    \/ AssetStep
    \/ AddItem
    \/ NodeStep
    \/ CommitStep
    \/ Cleanup
    \/ EditDoc
    \/ EditFile

Spec == Init /\ [][Next]_vars

\* Documents of the closure specification: any assets without nodes, or a
\* node graph with at most one plain asset.
ClosureDocs ==
    {[body |-> 1, assets |-> A, graph |-> 1] :
        A \in {B \in SUBSET AssetIds : Cardinality(B) <= MaxAssets}}
    \cup {[body |-> 1, assets |-> A, graph |-> g] : A \in {{}, {3}}, g \in GraphIds}

InitClosure == InitWith(ClosureDocs, {NoEnv}, {DocPath}, ClosureOps)

SpecClosure == InitClosure /\ [][Next]_vars


(***************************************************************************)
(* Properties.                                                             *)
(***************************************************************************)
WorkDir == get_workdir_name(filepath)
RepoDir == get_repo_name(filepath)

SideEffects(evs) == SelectSeq(evs, LAMBDA e : e.ev # "report" /\ e.ev # "dialog")

\* A step that is a call of SaveVersion.execute / LoadVersion.execute
SaveExecuteStep == pc = "idle" /\ ops' # ops /\ out'.op = "save"
LoadExecuteStep == pc = "idle" /\ ops' # ops /\ out'.op = "load"
ListStep == pc = "idle" /\ out'.op = "list"

\* A save that got past the comment check has ended
SaveEnded ==
    pc = "idle" /\ out.op = "save" /\ out.result \in {"FINISHED", "ERROR"}

\* C1: every save with a non-empty message ends, whatever step failed, with
\* the staging directory absent.
C1_CleanupGuarantee == SaveEnded => ~Exists(fs, WorkDir)

\* C2: after a save S1, a modification, a later save and a restore of S1's
\* revision, every file S1 captured (the .blend file and the references it
\* linked and added) holds on disk what it held when S1 was made.
RestoredCommit == CommitOf(commits, out.arg)
Restored == pc = "idle" /\ out.op = "load" /\ out.result = "FINISHED"
OnDisk(q) == fs[Resolve(PathJoin(PathSplit(filepath)[1], q))].data
C2_RoundTrip ==
    Restored =>
        \A q \in DOMAIN hist[RestoredCommit] :
            /\ IsFile(fs, PathJoin(PathSplit(filepath)[1], q))
            /\ OnDisk(q) = hist[RestoredCommit][q]

\* C2 witness: revision c1 captured the document and an asset, a second
\* revision with another document body and asset exists, and c1 was restored.
C2_Witness ==
    /\ Restored
    /\ out.arg = "c1"
    /\ Len(commits) >= 2
    /\ Cardinality(DOMAIN hist[1]) >= 2
    /\ \E q \in DOMAIN hist[1] : q \in DOMAIN hist[2] /\ hist[2][q] # hist[1][q]

\* C3: a save whose comment is empty or blank changes nothing: no staging
\* directory, no Git command, no repository, no rewrite of the document, no
\* new revision; it is cancelled.
C3_EmptyMessageRejected ==
    [][(SaveExecuteStep /\ Strip(out'.arg) = "")
        => /\ out'.result = "CANCELLED"
           /\ SideEffects(events') = <<>>
           /\ fs' = fs /\ index' = index /\ commits' = commits /\ doc' = doc
           /\ pc' = "idle"]_vars

C3_Witness ==
    /\ out.op = "save" /\ out.arg = "  " /\ out.result = "CANCELLED"
    /\ ~Exists(fs, WorkDir)

\* C4: a save started while a staging directory of an earlier save exists
\* does not fail on what that directory already holds.
C4_StaleStagingTolerated ==
    [][(SaveExecuteStep /\ Exists(fs, WorkDir) /\ CommentOk(out'.arg))
        => out'.result # "ERROR"]_vars

\* C9: with no repository directory, list_commits runs no Git command and
\* returns the single entry with the empty id; Load Version with that entry
\* checks nothing out, reloads nothing and is cancelled.
C9_NoRepoLoad ==
    [][/\ (ListStep /\ ~isdir(fs, RepoDir))
            => /\ events' = <<>>
               /\ out'.result # "ERROR"
               /\ Len(last_commits_list') = 1
               /\ last_commits_list'[1][1] = ""
       /\ (LoadExecuteStep /\ out'.arg = "")
            => /\ events' = <<>>
               /\ out'.result = "CANCELLED"
               /\ fs' = fs /\ doc' = doc /\ index' = index]_vars

C9_Witness ==
    /\ out.op = "load" /\ out.arg = "" /\ out.result = "CANCELLED"
    /\ ~isdir(fs, RepoDir)
    /\ last_commits_list = NoRepoList

\* C10: while the document has no path, neither operator runs a Git command
\* or changes the filesystem, through invoke or through execute.
C10_DocumentUnsaved ==
    ~doc_saved(filepath) =>
        /\ SideEffects(events) = <<>>
        /\ ~Exists(fs, WorkDir)
        /\ ~Exists(fs, RepoDir)


(***************************************************************************)
(* The reference closure, stated from the document alone.                  *)
(***************************************************************************)
ParentDir == PathSplit(filepath)[1]

\* A document-relative path leaves the document's directory: somewhere
\* along it, the ".." components outnumber the names before them.
RECURSIVE Climbs(_, _)
Climbs(parts, depth) ==
    IF Len(parts) = 0 THEN FALSE
    ELSE LET c == Head(parts)
         IN  IF c = "" \/ c = "." THEN Climbs(Tail(parts), depth)
             ELSE IF c = ".." THEN depth = 0 \/ Climbs(Tail(parts), depth - 1)
             ELSE Climbs(Tail(parts), depth + 1)

IsRelative(path) == Len(path) >= 2 /\ SubSeq(path, 1, 2) = "//"
EscapesUpward(path) == Climbs(SplitOn(SliceFrom(path, 2), "/", Len(path)), 0)

\* The references of this operation that were hard-linked / added
LinkEvents(evs) == SelectSeq(evs, LAMBDA e : e.ev = "link" /\ e.item # None)
LinkedRefs(evs) == {LinkEvents(evs)[k].item : k \in 1..Len(LinkEvents(evs))}
AddEvents(evs) == SelectSeq(evs, LAMBDA e : e.ev = "git" /\ e.args[1] = "add")
AddsOf(evs, ref) ==
    Len(SelectSeq(AddEvents(evs),
                  LAMBDA e : e.args[3] = WorkDir \o "/" \o SliceFrom(ref, 2)))
LinksOf(evs, ref) == Len(SelectSeq(LinkEvents(evs), LAMBDA e : e.item = ref))

\* C5: every reference a save links into the staging tree or adds is
\* relative to the document and does not lead above its directory.
C5_CaptureBoundary ==
    \A ref \in LinkedRefs(events) : IsRelative(ref) /\ ~EscapesUpward(ref)

\* The assets of the document the specification wants captured
PoolAssets(d) == {AssetPool[a] : a \in d.assets}
IsEmbedded(item) == item.packed_file # None
IsBuiltinFont(item) == item.category = "fonts" /\ item.filepath = "<builtin>"
IsStandardImage(item) == item.category = "images" => item.type = "IMAGE"
ExpectedClosure(d) ==
    {item.filepath : item \in
        {it \in PoolAssets(d) :
            /\ ~IsEmbedded(it)
            /\ IsRelative(it.filepath)
            /\ ~EscapesUpward(it.filepath)
            /\ ~IsBuiltinFont(it)
            /\ IsStandardImage(it)}}

\* The loops over the four asset categories are done, nothing failed
AssetsDone == pc = "nodes" /\ sv.ri = 1 /\ sv.stack = <<>>

\* C6: the asset paths a save captures are exactly those of the assets that
\* are not embedded, are document-relative, do not escape upward, are not a
\* built-in font and, for images, are of type IMAGE.
C6_ClosureCompleteness == AssetsDone => LinkedRefs(events) = ExpectedClosure(doc)

\* The node trees the walk can reach from a set of trees
RECURSIVE ReachTrees(_, _)
ReachTrees(d, T) ==
    LET groups(t) == {j \in 1..Len(NodeTree(d, t)) : NodeTree(d, t)[j].type = "GROUP"}
        more == UNION {{NodeTree(d, t)[k].node_tree : k \in groups(t)} : t \in T}
        T2 == T \cup (more \ {NoTree})
    IN  IF T2 = T THEN T ELSE ReachTrees(d, T2)

RootTrees(d) ==
    {Roots(d)[k] : k \in 1..Len(Roots(d))} \ {NoTree}

NodeRefs(d) ==
    LET leaves(t) == {j \in 1..Len(NodeTree(d, t)) :
                        /\ NodeTree(d, t)[j].type \in {"SCRIPT", "TEX_IES"}
                        /\ NodeTree(d, t)[j].mode = "EXTERNAL"}
    IN  UNION {{NodeTree(d, t)[k].filepath : k \in leaves(t)} :
                 t \in ReachTrees(d, RootTrees(d))}

AssetRefs(d) ==
    {w.item.filepath : w \in {x \in {AssetWalk(d)[k] : k \in 1..Len(AssetWalk(d))} :
                                 Wanted(x.item, x.cat)}}

\* How many assets and nodes of the document name a path
RefCount(d, ref) ==
    Cardinality({a \in d.assets : AssetPool[a].filepath = ref})
    + (IF ref \in NodeRefs(d) THEN 1 ELSE 0)

SaveRunning == out.op = "save" /\ out.result # "CANCELLED"
WalkDone == SaveRunning /\ (pc \in {"commit", "cleanup"} \/ out.result = "FINISHED")

\* C7: within one save, a path is hard-linked at most once and added at most
\* once, however many assets and nodes name it; once the walk is through,
\* every referenced path was linked exactly once and added exactly once.
C7_Dedup ==
    SaveRunning =>
        /\ \A ref \in LinkedRefs(events) :
              LinksOf(events, ref) = 1 /\ AddsOf(events, ref) <= 1
        /\ WalkDone =>
              \A ref \in AssetRefs(doc) \cup NodeRefs(doc) :
                  LinksOf(events, ref) = 1 /\ AddsOf(events, ref) = 1

\* C7 witness: a save got through its walk with a path named more than once
\* (two assets, or an asset and a node, or a light walked twice).
C7_Witness ==
    /\ WalkDone
    /\ \E ref \in LinkedRefs(events) :
          /\ AddsOf(events, ref) = 1
          /\ \/ RefCount(doc, ref) >= 2
             \/ (Lights(doc) # <<>> /\ ref \in NodeRefs(doc))

\* C8: the walk of the node graphs always comes to an end with its set of
\* references, also when a group contains itself: it never dies of
\* unbounded recursion.
C8_CycleSafety == out.error # "RecursionError"


(***************************************************************************)
(* Two saves in a row.                                                     *)
(***************************************************************************)
\* A save has staged everything and what it staged is the tree of the last
\* revision: nothing changed since that revision was made.
NothingChanged == pc = "commit" /\ Len(commits) > 0 /\ index = HeadTree(commits)

\* C11: a save made when nothing changed since the last revision commits all
\* the same, giving a second revision with the same tree as the one before.
C11_RerunnableSave ==
    [][(NothingChanged /\ pc' # "commit") =>
          /\ Len(commits') = Len(commits) + 1
          /\ commits'[Len(commits')].tree = HeadTree(commits)
          /\ out'.result # "ERROR"]_vars

\* The commit of such a save never makes a revision: the save always ends
\* with the error of the backend.
C11_SecondSaveRaises ==
    [][(NothingChanged /\ pc' # "commit") =>
          commits' = commits /\ out'.error = "CalledProcessError"]_vars


(***************************************************************************)
(* The history of revisions.                                               *)
(***************************************************************************)
\* A step that leaves the commit of a save with one more revision after the
\* ones there were
CommitAppends ==
    /\ pc = "commit" /\ pc' = "cleanup"
    /\ Len(commits') = Len(commits) + 1
    /\ SubSeq(commits', 1, Len(commits)) = commits

\* C12: the revisions only grow: every step leaves them as they were or is
\* the successful commit of a save, which appends one; listing and restoring
\* never change them.
C12_AppendOnly ==
    [][/\ commits' = commits \/ CommitAppends
       /\ (ListStep \/ LoadExecuteStep) => commits' = commits]_vars

\* C12 witness: a restore went through with two revisions in the history
C12_Witness ==
    out.op = "load" /\ out.result = "FINISHED" /\ Len(commits) >= 2


(***************************************************************************)
(* The order of the steps of a save.                                       *)
(***************************************************************************)
IsCmd(e, c) == e.ev = "git" /\ e.args[1] = c
IsRefLink(e) == e.ev = "link" /\ e.item # None
IsPrimaryLink(e) == e.ev = "link" /\ e.item = None
IsPrimaryAdd(e) == IsCmd(e, "add") /\ e.args[3] = Basename(filepath)
IsRefAdd(e) == IsCmd(e, "add") /\ e.args[3] # Basename(filepath)

\* The place of a step in the order the code runs them: the links and adds
\* of all files share one place, they alternate.
StepRank(e) ==
    IF e.ev = "mkdir" THEN 1
    ELSE IF e.ev = "symlink" THEN 2
    ELSE IF IsCmd(e, "init") THEN 3
    ELSE IF IsCmd(e, "config") THEN 4
    ELSE IF e.ev = "save_as_mainfile" THEN 5
    ELSE IF e.ev = "link" \/ IsCmd(e, "add") THEN 6
    ELSE IF IsCmd(e, "commit") THEN 7
    ELSE 8

\* The place of a step in the order of phases: staging-created,
\* repo-ensured, primary-linked, references-linked, added, committed,
\* cleaned-up. The add of the primary file counts with its link.
PhaseRank(e) ==
    IF e.ev \in {"mkdir", "symlink"} THEN 1
    ELSE IF IsCmd(e, "init") \/ IsCmd(e, "config") THEN 2
    ELSE IF e.ev = "save_as_mainfile" \/ IsPrimaryLink(e) \/ IsPrimaryAdd(e) THEN 3
    ELSE IF IsRefLink(e) THEN 4
    ELSE IF IsRefAdd(e) THEN 5
    ELSE IF IsCmd(e, "commit") THEN 6
    ELSE 7

Ordered(evs, rank(_)) ==
    \A i, j \in 1..Len(evs) : i < j => rank(evs[i]) <= rank(evs[j])
Once(evs, r) ==
    Cardinality({i \in 1..Len(evs) : StepRank(evs[i]) = r}) <= 1

\* Links and adds go in pairs: a file is hard-linked and then at once added
Paired(evs) ==
    \A k \in 1..Len(evs) :
        /\ (evs[k].ev = "link" /\ k < Len(evs)) =>
              IsCmd(evs[k + 1], "add") /\ AddTarget(evs[k + 1]) = Resolve(evs[k].dst)
        /\ IsCmd(evs[k], "add") =>
              k > 1 /\ evs[k - 1].ev = "link"
                    /\ AddTarget(evs[k]) = Resolve(evs[k - 1].dst)

SaveFinished == pc = "idle" /\ out.op = "save" /\ out.result = "FINISHED"

StepOrder(evs) ==
    /\ Ordered(evs, StepRank)
    /\ \A r \in {1, 2, 3, 4, 5, 7, 8} : Once(evs, r)
    /\ Paired(evs)
    /\ Len(evs) >= 1 => evs[1].ev = "mkdir"
    /\ Len(evs) >= 2 => evs[2].ev = "symlink"
    /\ (\E i \in 1..Len(evs) : IsCmd(evs[i], "config")) =>
          (\E i \in 1..Len(evs) : IsCmd(evs[i], "init"))
    /\ SaveFinished =>
          /\ \E i \in 1..Len(evs) : IsPrimaryAdd(evs[i])
          /\ Len(evs) >= 2
          /\ IsCmd(evs[Len(evs) - 1], "commit")
          /\ evs[Len(evs)].ev = "rmtree"

\* The step that appends a given backend command to the log
Runs(c) == Len(events') = Len(events) + 1 /\ IsCmd(events'[Len(events')], c)

\* C13, as the code has it: in every save the steps come in the order
\* staging-created, repo-ensured (init, then config, run only when the
\* repository directory is absent), document written, then file by file
\* hard-linked and at once added (the primary file first), committed once
\* after every link and add, cleaned-up; no step comes before its predecessor.
C13_StepOrder ==
    /\ [](SaveRunning => StepOrder(events))
    /\ [][/\ Runs("init") => ~isdir(fs, RepoDir)
          /\ (SaveExecuteStep /\ pc' # "idle") =>
                (pc' = "init" <=> ~isdir(fs', RepoDir))]_vars

\* C13 witness: a save finished that ran init and captured two references
C13_Witness ==
    /\ SaveFinished
    /\ Cardinality(LinkedRefs(events)) >= 2
    /\ \E i \in 1..Len(events) : IsCmd(events[i], "init")

\* C13, as stated: the references are all hard-linked before any of them is
\* added; the phases come one after the other.
C13_PhaseOrder == SaveRunning => Ordered(events, PhaseRank)


(***************************************************************************)
(* The two modes of the backend commands.                                  *)
(***************************************************************************)
WriteCommands == {"init", "config", "add", "commit"}
ReadCommands == {"log", "checkout"}

\* A command ran in write mode: in the staging tree, with no GIT_DIR
WriteMode(e) ==
    e.saving /\ e.cwd = WorkDir /\ "GIT_DIR" \notin DOMAIN e.env

\* A command ran in read mode: in the directory of the document, with
\* GIT_DIR naming the repository
ReadMode(e) ==
    /\ ~e.saving
    /\ e.cwd = ParentDir
    /\ "GIT_DIR" \in DOMAIN e.env
    /\ e.env["GIT_DIR"] = RepoDir

\* C14: every backend command of a save is one of init, config, add and
\* commit and runs in write mode, also when the caller's environment holds
\* GIT_DIR; every backend command of a list or a restore is log or checkout
\* and runs in read mode.
C14_ExecutionModes ==
    \A k \in 1..Len(events) :
        events[k].ev = "git" =>
            /\ out.op = "save" =>
                  events[k].args[1] \in WriteCommands /\ WriteMode(events[k])
            /\ out.op \in {"list", "load"} =>
                  events[k].args[1] \in ReadCommands /\ ReadMode(events[k])
            /\ events[k].args[1] \in WriteCommands => WriteMode(events[k])
            /\ events[k].args[1] \in ReadCommands => ReadMode(events[k])

\* C14 witness: with GIT_DIR in the caller's environment, a save ran its
\* commit
C14_Witness ==
    /\ "GIT_DIR" \in DOMAIN environ
    /\ out.op = "save"
    /\ \E k \in 1..Len(events) : IsCmd(events[k], "commit")


(***************************************************************************)
(* The reload of a restore.                                                *)
(***************************************************************************)
IsReload(e) == e.ev = "open_mainfile"
Reloads(evs) == {k \in 1..Len(evs) : IsReload(evs[k])}

\* C15: in a restore the file is reopened at most once, right after the
\* forced checkout of the chosen revision, and exactly when the restore
\* reports success: a failed checkout ends the restore with its error and
\* with no reload; a reload finds the document of the chosen revision.
C15_ReloadFollowsCheckout ==
    out.op = "load" =>
        /\ Cardinality(Reloads(events)) <= 1
        /\ \A k \in Reloads(events) :
              /\ k = 2
              /\ IsCmd(events[1], "checkout")
              /\ events[1].args = <<"checkout", "-f", out.arg, ".">>
              /\ events[k].filepath = filepath
              /\ \E c \in 1..Len(commits) :
                    /\ commits[c].id = out.arg
                    /\ doc = commits[c].tree[Basename(filepath)]
        /\ out.result = "FINISHED" <=> Reloads(events) # {}
        /\ out.result = "ERROR" =>
              /\ Len(events) = 1 /\ IsCmd(events[1], "checkout")
              /\ out.error = "CalledProcessError"

\* C15 witness: a restore checked a revision out and reopened the file
C15_Witness ==
    /\ out.op = "load" /\ out.result = "FINISHED"
    /\ Len(events) = 2 /\ IsReload(events[2])


(***************************************************************************)
(* What a revision holds.                                                  *)
(***************************************************************************)
\* C16: the files of every revision are the primary document and the
\* references the save that made it collected, no more and no less.
C16_SnapshotEqualsClosure ==
    \A k \in 1..Len(commits) : DOMAIN commits[k].tree = DOMAIN hist[k]


(***************************************************************************)
(* Listing while there is no revision.                                     *)
(***************************************************************************)
\* C17: while no revision was ever made, listing returns the one entry that
\* stands for "no history" and raises nothing, also after a first save that
\* made the repository and failed before its commit.
C17_ListingNoHistory ==
    [][(ListStep /\ Len(commits) = 0) =>
          out'.result # "ERROR" /\ last_commits_list' = NoRepoList]_vars

\* Once the repository directory is there and no revision is, every listing
\* ends with the error of git log.
C17_ListingRaises ==
    [][(ListStep /\ Len(commits) = 0 /\ isdir(fs, RepoDir)) =>
          out'.error = "CalledProcessError"]_vars

=============================================================================
